---- MODULE Spec2Model ----
(***************************************************************************)
(* FastGH: the main window's refresh / notification-diff engine            *)
(* (src/GUI/main.py), the accounts dialog (src/GUI/accounts.py), the       *)
(* session registry (src/application.py), the account's constructor and    *)
(* its methods over the REST service (src/github_api.py) and the clone /   *)
(* pull runs of the repository dialog (src/GUI/view.py).                   *)
(*                                                                         *)
(* The six lists of the main window use disjoint fields and disjoint       *)
(* methods, so one behaviour follows one list: Init picks it ("stream").   *)
(* Python's Optional[T] is a sequence of length 0 (None) or 1 (a value).   *)
(***************************************************************************)
EXTENDS Integers, Sequences, FiniteSets, TLC

VARIABLES
    stream,          \* the list of the main window this behaviour follows
    notify,          \* app.prefs.notify_<stream>
    cache,           \* MainGui.feed / .repos / .starred / .watched / .following / .notifications
    listbox,         \* rows of the list's wx.ListBox
    last_ids,        \* MainGui._last_<stream>_ids (Optional set of keys)
    spawned,         \* _load_<stream> threads started, request not yet issued
    waiting,         \* per account object: threads with a request in flight
    pending,         \* _update_<stream>_list callbacks posted by wx.CallAfter, not yet run
    windowShown,     \* MainGui.IsShown()
    accounts,        \* Application.accounts
    currentAccount,  \* Application.currentAccount (0: None)
    prefs_accounts,  \* Application.prefs.accounts
    stores,          \* persisted account<i> folders: slot -> stored token (0: none)
    exitRequested,   \* wx.CallAfter(wx.Exit) was issued
    constructed,     \* GitHubAccount objects constructed so far (the next one's uid - 1)
    toast,           \* the desktop notification raised by the last step (Optional)
    cacheAcct,       \* history: the account object the cache was fetched from
    cacheOk,         \* history: the fetch that filled the cache got 200 on every page
    snapOwner,       \* history: the account object whose fetch last_ids was taken from
    lastProcessed,   \* history: what the latest _update_<stream>_list processed (Optional)
    nProcessed,      \* history: runs of _update_<stream>_list so far (2: two or more)
    netCall,         \* the thread on which the last step called the service ("none": no call)
    setup,           \* per account object: where its GitHubAccount.__init__ stands
    call,            \* the latest call of a GitHubAccount method, with what it gave back
    git,             \* the clone / pull run of ViewRepoDialog._run_git_with_progress
    cycle,           \* where the running _update_<stream>_list callback stands
    loading          \* Application.load: the slot it constructs next

guiVars == <<stream, notify, cache, listbox, last_ids, spawned, waiting, pending,
             windowShown, toast, cacheAcct, cacheOk, snapOwner, lastProcessed,
             nProcessed>>
regVars == <<accounts, currentAccount, prefs_accounts, stores, exitRequested, constructed>>
auxVars == <<setup, call, git, cycle, loading>>
vars == <<guiVars, netCall, regVars, auxVars>>

(***************************************************************************)
(* Bounds of the model.                                                    *)
(***************************************************************************)
MaxId == 1          \* item ids are 1..MaxId
MaxTs == 2          \* push times are 1..MaxTs
MaxInFlight == 1
MaxAccounts == 2    \* accounts in the registry
MaxConstructed == 2
MaxObjects == 3     \* GitHubAccount objects constructed where no window is followed
MaxHistory == 6     \* records behind a list endpoint
MaxPerPage == 2     \* per_page is 1..MaxPerPage
MaxFailPage == 2    \* the page whose request can fail is 1..MaxFailPage
MaxExpires == 3     \* the device code expires after 0..MaxExpires polling intervals

None == << >>
Some(v) == <<v>>

Lists == {"feed", "repos", "starred", "watched", "following", "notifications"}
DiffStreams == {"feed", "notifications", "starred", "watched"}

Ids == 1..MaxId

(***************************************************************************)
(* Records of a list.  attr is the field the diff reads: Notification      *)
(* .unread (0 False, 1 True), Repository.pushed_at (0 None, t a datetime); *)
(* an Event, and the lists that are not diffed, have none (0).             *)
(***************************************************************************)
AttrRange(s) ==
    CASE s = "notifications" -> 0..1
      [] s \in {"starred", "watched"} -> 0..MaxTs
      [] OTHER -> {0}

Items(s) == [id : Ids, attr : AttrRange(s)]

RECURSIVE SeqsUpTo(_, _)
SeqsUpTo(S, n) ==
    IF n = 0 THEN {<< >>}
    ELSE LET shorter == SeqsUpTo(S, n - 1)
         IN shorter \cup {Append(q, x) : q \in shorter, x \in S}

Ascending(c) == \A i, j \in DOMAIN c : i < j => c[i].id < c[j].id

\* What the service can answer for a list: records with different ids, listed in
\* the service's order (here by id).
Collections(s) == {c \in SeqsUpTo(Items(s), MaxId) : Ascending(c)}

FeedCollections == Collections("feed")
NotificationCollections == Collections("notifications")
RepoCollections == Collections("starred")

CollectionsOf(s) ==
    CASE s = "notifications" -> NotificationCollections
      [] s \in {"starred", "watched"} -> RepoCollections
      [] OTHER -> FeedCollections

\* datetime.isoformat() of the push times 1, 2, ...
IsoStrings == <<"2024-01-01T00:00:00+00:00", "2024-01-02T00:00:00+00:00",
                "2024-01-03T00:00:00+00:00", "2024-01-04T00:00:00+00:00">>
isoformat(t) == IsoStrings[t]

\* next((x for x in seq if x.id in ids), None), as an index (0: None)
FirstIndex(seq, ids) ==
    IF \E i \in DOMAIN seq : seq[i].id \in ids
    THEN CHOOSE i \in DOMAIN seq :
             seq[i].id \in ids /\ \A j \in 1..(i - 1) : seq[j].id \notin ids
    ELSE 0

Note(count, item) == Some([count |-> count, item |-> item])

(***************************************************************************)
(* The notification diff of the four streams.  Each operator takes the     *)
(* stream's toggle, its stored snapshot and the collection handed to it,   *)
(* and gives the snapshot it leaves and the notification it raises.        *)
(***************************************************************************)
Outcome(last, t) == [last |-> last, toast |-> t]

feed_new_ids(new_feed) == {new_feed[i].id : i \in DOMAIN new_feed}

feed_new_item_ids(new_ids, last) == new_ids \ last

\* Variant: the first load is diffed against the empty set instead of being
\* stored silently.
first_load_notifies_feed(enabled, last, new_feed) ==
    IF ~enabled THEN Outcome(last, None)
    ELSE LET new_ids == feed_new_ids(new_feed)
             new_item_ids == feed_new_item_ids(new_ids, IF last = None THEN {} ELSE last[1])
             k == FirstIndex(new_feed, new_item_ids)
         IN Outcome(Some(new_ids),
                    IF new_item_ids # {} /\ k # 0
                    THEN Note(Cardinality(new_item_ids), new_feed[k].id)
                    ELSE None)

\* Variant: an empty feed puts the snapshot back to None.
empty_feed_resets_snapshot(enabled, last, new_feed) ==
    IF ~enabled THEN Outcome(last, None)
    ELSE LET new_ids == feed_new_ids(new_feed)
             kept == IF new_ids = {} THEN None ELSE Some(new_ids)
         IN IF last = None THEN Outcome(kept, None)
            ELSE LET new_item_ids == feed_new_item_ids(new_ids, last[1])
                     k == FirstIndex(new_feed, new_item_ids)
                 IN Outcome(kept,
                            IF new_item_ids # {} /\ k # 0
                            THEN Note(Cardinality(new_item_ids), new_feed[k].id)
                            ELSE None)

check_and_notify_feed(enabled, last, new_feed) ==
    IF ~enabled THEN Outcome(last, None)
    ELSE LET new_ids == feed_new_ids(new_feed)
         IN IF last = None THEN Outcome(Some(new_ids), None)
            ELSE LET new_item_ids == feed_new_item_ids(new_ids, last[1])
                     k == FirstIndex(new_feed, new_item_ids)
                 IN Outcome(Some(new_ids),
                            IF new_item_ids # {} /\ k # 0
                            THEN Note(Cardinality(new_item_ids), new_feed[k].id)
                            ELSE None)

\* Variant: read notifications are keys too.
all_notification_ids(new_notifications) ==
    {new_notifications[i].id : i \in DOMAIN new_notifications}

notification_new_ids(new_notifications) ==
    {new_notifications[i].id :
        i \in {j \in DOMAIN new_notifications : new_notifications[j].attr = 1}}

check_and_notify_notifications(enabled, last, new_notifications) ==
    IF ~enabled THEN Outcome(last, None)
    ELSE LET new_ids == notification_new_ids(new_notifications)
         IN IF last = None THEN Outcome(Some(new_ids), None)
            ELSE LET new_item_ids == new_ids \ last[1]
                     k == FirstIndex(new_notifications, new_item_ids)
                 IN Outcome(Some(new_ids),
                            IF new_item_ids # {} /\ k # 0
                            THEN Note(Cardinality(new_item_ids), new_notifications[k].id)
                            ELSE None)

repo_key(r) == <<r.id, IF r.attr # 0 THEN isoformat(r.attr) ELSE "">>

repo_new_ids(repos) == {repo_key(repos[i]) : i \in DOMAIN repos}

\* next((k for k in last if k[0] == id), None)
old_key(last, id) ==
    IF \E k \in last : k[1] = id THEN Some(CHOOSE k \in last : k[1] = id) ELSE None

\* Variant: a repository that is not in the snapshot counts as updated too.
repo_changed_or_new(last, repo) ==
    LET old == old_key(last, repo.id)
    IN old = None \/ old[1] # repo_key(repo)

\* Variant: a repository of the snapshot counts as updated whatever its key.
repo_known(last, repo) == old_key(last, repo.id) # None

repo_updated(last, repo) ==
    LET old == old_key(last, repo.id)
    IN old # None /\ old[1] # repo_key(repo)

updated_repos(last, repos) == SelectSeq(repos, LAMBDA r : repo_updated(last, r))

check_and_notify_starred(enabled, last, new_starred) ==
    IF ~enabled THEN Outcome(last, None)
    ELSE LET new_ids == repo_new_ids(new_starred)
         IN IF last = None THEN Outcome(Some(new_ids), None)
            ELSE LET updated == updated_repos(last[1], new_starred)
                 IN Outcome(Some(new_ids),
                            IF updated # << >> THEN Note(Len(updated), updated[1].id)
                            ELSE None)

\* Variant: a disabled toggle silences the alert but the snapshot is replaced.
disabled_replaces_snapshot_watched(enabled, last, new_watched) ==
    LET new_ids == repo_new_ids(new_watched)
    IN IF ~enabled \/ last = None THEN Outcome(Some(new_ids), None)
       ELSE LET updated == updated_repos(last[1], new_watched)
            IN Outcome(Some(new_ids),
                       IF updated # << >> THEN Note(Len(updated), updated[1].id)
                       ELSE None)

check_and_notify_watched(enabled, last, new_watched) ==
    IF ~enabled THEN Outcome(last, None)
    ELSE LET new_ids == repo_new_ids(new_watched)
         IN IF last = None THEN Outcome(Some(new_ids), None)
            ELSE LET updated == updated_repos(last[1], new_watched)
                 IN Outcome(Some(new_ids),
                            IF updated # << >> THEN Note(Len(updated), updated[1].id)
                            ELSE None)

\* The check _update_<s>_list runs before it refills the list box.
check_and_notify(s, enabled, last, coll) ==
    CASE s = "feed" -> check_and_notify_feed(enabled, last, coll)
      [] s = "notifications" -> check_and_notify_notifications(enabled, last, coll)
      [] s = "starred" -> check_and_notify_starred(enabled, last, coll)
      [] s = "watched" -> check_and_notify_watched(enabled, last, coll)
      [] OTHER -> Outcome(last, None)

(***************************************************************************)
(* A list fetch of GitHubAccount.  A response is one page: it raises (a    *)
(* network error inside requests), or carries a status and, with 200, the  *)
(* records.  Every collection of the model is shorter than per_page, so    *)
(* the paging loop asks for page 1 only: a status other than 200 breaks    *)
(* out with the empty list, a 200 gives the page and ends on its length.   *)
(***************************************************************************)
ResponsesWith(colls) ==
    {[raises |-> FALSE, status_code |-> 200, data |-> c] : c \in colls}
    \cup {[raises |-> FALSE, status_code |-> 500, data |-> << >>],
          [raises |-> TRUE, status_code |-> 0, data |-> << >>]}

Responses(s) == ResponsesWith(CollectionsOf(s))

\* The answers used where the accounts and the threads are followed: the empty
\* list and the list of one record, the record with id 1 and the largest attr
\* (an unread notification, a repository with a push time).
OneRecord(s) == <<[id |-> 1, attr |-> CHOOSE a \in AttrRange(s) : \A b \in AttrRange(s) : b <= a]>>

ShortResponses(s) ==
    {r \in ResponsesWith({<< >>, OneRecord(s)}) : r.raises \/ r.status_code = 200}

get_list(response) ==
    IF response.status_code # 200 THEN << >> ELSE response.data

(***************************************************************************)
(* The session registry (Application).  An account object is [uid, index,  *)
(* token]: uid is the object's identity, index the slot it was constructed *)
(* for, token the prefs.access_token it holds.                             *)
(* A persisted store holds the token minted for it: the uid of the account *)
(* whose device flow wrote it, or -(i + 1) for the store found at slot i   *)
(* when the process started.                                               *)
(***************************************************************************)
\* Folders account<i>: one more than the registry holds accounts, so that a
\* slot can be left without an account.
Slots == 0..MaxAccounts

Reg == [accounts |-> accounts, currentAccount |-> currentAccount,
        prefs_accounts |-> prefs_accounts, stores |-> stores,
        exitRequested |-> exitRequested]

SetReg(r) ==
    /\ constructed' = constructed
    /\ accounts' = r.accounts
    /\ currentAccount' = r.currentAccount
    /\ prefs_accounts' = r.prefs_accounts
    /\ stores' = r.stores
    /\ exitRequested' = r.exitRequested

\* The same, after one more GitHubAccount was constructed.
SetRegNew(r) ==
    /\ constructed' = constructed + 1
    /\ accounts' = r.accounts
    /\ currentAccount' = r.currentAccount
    /\ prefs_accounts' = r.prefs_accounts
    /\ stores' = r.stores
    /\ exitRequested' = r.exitRequested

SetupOutcomes == {"ok", "cancelled", "error"}

\* GitHubAccount(app, index) that reaches ready: the slot holds a token afterwards,
\* the one it found or the one the device flow of this object wrote.
account_store(st, index, uid) ==
    [st EXCEPT ![index] = IF @ = 0 THEN uid ELSE @]

\* self.currentAccount after a successful construction
current_after_add(cur, uid) == IF cur = 0 THEN uid ELSE cur

\* Variant: a cancelled setup asks for the exit whatever the registry holds.
add_session_cancel_always_exits(r, index, uid, outcome) ==
    CASE outcome = "ok" ->
            [r EXCEPT !.accounts = Append(@, [uid |-> uid, index |-> index,
                                              token |-> account_store(r.stores, index, uid)[index]]),
                      !.currentAccount = current_after_add(@, uid),
                      !.stores = account_store(@, index, uid)]
      [] outcome = "cancelled" -> [r EXCEPT !.exitRequested = TRUE]
      [] OTHER -> r

add_session(r, index, uid, outcome) ==
    CASE outcome = "ok" ->
            [r EXCEPT !.accounts = Append(@, [uid |-> uid, index |-> index,
                                              token |-> account_store(r.stores, index, uid)[index]]),
                      !.currentAccount = current_after_add(@, uid),
                      !.stores = account_store(@, index, uid)]
      [] outcome = "cancelled" ->
            IF Len(r.accounts) = 0 THEN [r EXCEPT !.exitRequested = TRUE] ELSE r
      [] OTHER -> r

\* os.path.exists(account<j>)
folder_exists(st, j) == j \in DOMAIN st /\ st[j] # 0

\* Variant: the folder is copied to the lower slot and left where it was.
RECURSIVE copy_folders(_, _, _)
copy_folders(st, j, n) ==
    IF j >= n THEN st
    ELSE copy_folders(IF folder_exists(st, j)
                      THEN [st EXCEPT ![j - 1] = st[j]]
                      ELSE st,
                      j + 1, n)

\* for j in range(j, n): move account<j> to account<j-1> if it exists
RECURSIVE shift_folders(_, _, _)
shift_folders(st, j, n) ==
    IF j >= n THEN st
    ELSE shift_folders(IF folder_exists(st, j)
                       THEN [st EXCEPT ![j - 1] = st[j], ![j] = 0]
                       ELSE st,
                       j + 1, n)

pop(seq, index) ==
    [i \in 1..(Len(seq) - 1) |-> IF i <= index THEN seq[i] ELSE seq[i + 1]]

\* Variant: the current account is left as it was.
current_kept_after_remove(cur, removed, accs) == cur

\* self.currentAccount after accounts.pop(index) gave `removed`
current_after_remove(cur, removed, accs) ==
    IF cur = removed.uid
    THEN (IF accs # << >> THEN accs[1].uid ELSE 0)
    ELSE cur

remove_account(r, index) ==
    IF index < 0 \/ index >= Len(r.accounts) THEN r
    ELSE LET removed == r.accounts[index + 1]
             accs == pop(r.accounts, index)
             deleted == IF folder_exists(r.stores, index)
                        THEN [r.stores EXCEPT ![index] = 0]
                        ELSE r.stores
         IN [r EXCEPT !.accounts = accs,
                      !.stores = shift_folders(deleted, index + 1, r.prefs_accounts),
                      !.prefs_accounts = @ - 1,
                      !.currentAccount = current_after_remove(@, removed, accs)]

\* AccountsDialog.on_switch: self.app.currentAccount = self.app.accounts[selection]
switch_account(r, selection) ==
    [r EXCEPT !.currentAccount = r.accounts[selection + 1].uid]

Uids == 1..MaxConstructed

(***************************************************************************)
(* GitHubAccount's methods over the REST service (src/github_api.py).      *)
(* A list endpoint holds `total` records, numbered in the order it lists   *)
(* them, and answers a request for one page of per_page records.  The      *)
(* request for page fail_page (0: none) fails: the session raises          *)
(* ("raises"), or the answer carries a status that is not the success one  *)
(* ("status"), or its body is not JSON so that response.json() raises      *)
(* ("malformed").                                                          *)
(***************************************************************************)
FailKinds == {"raises", "status", "malformed"}

Servers ==
    {s \in [total : 0..MaxHistory, fail_page : 0..MaxFailPage, fail_kind : FailKinds] :
        s.fail_page = 0 => s.fail_kind = "status"}

Min(a, b) == IF a < b THEN a ELSE b

\* The records of page `page`: numbers (page-1)*per_page+1 .. page*per_page, as far as there are any.
page_data(total, per_page, page) ==
    LET first == (page - 1) * per_page
        n == Min(per_page, total - first)
    IN [i \in 1..(IF n < 0 THEN 0 ELSE n) |-> first + i]

\* self._session.get(url, params={"per_page": per_page, "page": page})
request(server, per_page, page) ==
    LET fails == page = server.fail_page
    IN [raises |-> fails /\ server.fail_kind = "raises",
        malformed |-> fails /\ server.fail_kind = "malformed",
        status_code |-> IF fails /\ server.fail_kind = "status" THEN 500 ELSE 200,
        data |-> IF fails THEN << >> ELSE page_data(server.total, per_page, page)]

\* What a method gives its caller: it raised, or it returned `value`;
\* `requests` is the number of requests it sent.
Raised(n) == [raised |-> TRUE, value |-> << >>, requests |-> n]
Returned(v, n) == [raised |-> FALSE, value |-> v, requests |-> n]

\* The `while True:` loop of get_repos, get_issues, get_pull_requests,
\* get_releases, get_notifications and get_following, from page `page` on.
RECURSIVE get_pages(_, _, _, _)
get_pages(server, per_page, page, items) ==
    LET response == request(server, per_page, page)
    IN IF response.raises THEN Raised(page)
       ELSE IF response.status_code # 200 THEN Returned(items, page)
       ELSE IF response.malformed THEN Raised(page)
       ELSE IF response.data = << >> THEN Returned(items, page)
       ELSE IF Len(response.data) < per_page THEN Returned(items \o response.data, page)
       ELSE get_pages(server, per_page, page + 1, items \o response.data)

get_repos(server, per_page) == get_pages(server, per_page, 1, << >>)

\* Variant: the whole page is appended before the limit is looked at.
RECURSIVE append_page(_, _, _)
append_page(commits, data, max_commits) ==
    IF data = << >>
    THEN [commits |-> commits,
          returned |-> max_commits > 0 /\ Len(commits) >= max_commits]
    ELSE append_page(Append(commits, Head(data)), Tail(data), max_commits)

\* get_commits: for item in data: commits.append(item); return once the limit is reached
RECURSIVE append_commits(_, _, _)
append_commits(commits, data, max_commits) ==
    IF data = << >> THEN [commits |-> commits, returned |-> FALSE]
    ELSE LET appended == Append(commits, Head(data))
         IN IF max_commits > 0 /\ Len(appended) >= max_commits
            THEN [commits |-> appended, returned |-> TRUE]
            ELSE append_commits(appended, Tail(data), max_commits)

\* get_commits: the `while True:` loop
RECURSIVE commit_pages(_, _, _, _, _)
commit_pages(server, per_page, page, commits, max_commits) ==
    LET response == request(server, per_page, page)
        loop == append_commits(commits, response.data, max_commits)
    IN IF response.raises THEN Raised(page)
       ELSE IF response.status_code # 200 THEN Returned(commits, page)
       ELSE IF response.malformed THEN Raised(page)
       ELSE IF response.data = << >> THEN Returned(commits, page)
       ELSE IF loop.returned THEN Returned(loop.commits, page)
       ELSE IF Len(response.data) < per_page THEN Returned(loop.commits, page)
       ELSE commit_pages(server, per_page, page + 1, loop.commits, max_commits)

\* get_commits: per_page is lowered to max_commits when that is smaller
commits_per_page(per_page, max_commits) ==
    IF max_commits > 0 /\ max_commits < per_page THEN max_commits ELSE per_page

get_commits(server, per_page, max_commits) ==
    commit_pages(server, commits_per_page(per_page, max_commits), 1, << >>, max_commits)

\* get_workflow_runs: one request, with per_page and no page parameter
get_workflow_runs(server, per_page) ==
    LET response == request(server, per_page, 1)
    IN IF response.raises THEN Raised(1)
       ELSE IF response.status_code # 200 THEN Returned(<< >>, 1)
       ELSE IF response.malformed THEN Raised(1)
       ELSE Returned(response.data, 1)

\* get_repo: one request for one record (the server holds it when total > 0,
\* and answers 404 otherwise)
get_repo(server) ==
    LET response == request(server, 1, 1)
    IN IF response.raises THEN Raised(1)
       ELSE IF response.status_code # 200 \/ response.data = << >> THEN Returned(None, 1)
       ELSE IF response.malformed THEN Raised(1)
       ELSE Returned(Some(response.data[1]), 1)

\* self._session.put(url) / .delete(url): 204 when the service did it
put(server) ==
    LET fails == server.fail_page = 1
    IN [raises |-> fails /\ server.fail_kind = "raises",
        status_code |-> IF fails /\ server.fail_kind = "status" THEN 500 ELSE 204]

\* star_repo / unstar_repo: return response.status_code == 204; the body is not read
star_repo(server) ==
    LET response == put(server)
    IN IF response.raises THEN Raised(1)
       ELSE Returned(response.status_code = 204, 1)

PagedOperations == {"get_repos", "get_issues", "get_pull_requests", "get_releases",
                    "get_notifications", "get_following"}
ListOperations == PagedOperations \cup {"get_commits", "get_workflow_runs"}

\* The method `op` of the account, called with these arguments.
list_operation(op, server, per_page, max_commits) ==
    CASE op = "get_commits" -> get_commits(server, per_page, max_commits)
      [] op = "get_workflow_runs" -> get_workflow_runs(server, per_page)
      [] OTHER -> get_repos(server, per_page)

NoServer == [total |-> 0, fail_page |-> 0, fail_kind |-> "status"]
NoCall == [op |-> "none", server |-> NoServer, per_page |-> 1, max_commits |-> 0,
           result |-> Returned(<< >>, 0)]

(***************************************************************************)
(* GitHubAccount.__init__ (src/github_api.py), followed from request to    *)
(* request.  The state of an account object is the place its constructor   *)
(* has reached: NoCredential (no token: _authenticate is to be entered),   *)
(* AuthenticationPending (the device code is out, the token endpoint is    *)
(* polled), Verifying (the profile is to be fetched), Ready (self.ready),  *)
(* Cancelled (AccountSetupCancelled was raised), Failed (another exception *)
(* left the constructor).                                                  *)
(***************************************************************************)
Unbuilt == [state |-> "Unbuilt",
            index |-> 0,          \* GitHubAccount.index
            expires_in |-> 0,     \* _authenticate: the expiry window of the device code
            interval |-> 0,       \* _authenticate: the polling interval
            elapsed |-> 0,        \* _authenticate: time.time() - start_time
            timed_out |-> FALSE,  \* _authenticate: "Authorization timed out" was shown
            retry |-> FALSE,      \* _verify_credentials is inside its 401 branch
            status |-> 0,         \* history: status of the latest profile fetch (0: none)
            fetches |-> 0,        \* history: profile fetches sent
            auths |-> 0,          \* history: entries into _authenticate
            cleared |-> 0,        \* history: times the stored token was cleared
            returned |-> FALSE]   \* the constructor has returned or raised to add_session

InProgress == {"NoCredential", "AuthenticationPending", "Verifying"}

\* __init__ up to `if not self.prefs.access_token`
init_account(index, token) ==
    [Unbuilt EXCEPT !.state = IF token = 0 THEN "NoCredential" ELSE "Verifying",
                    !.index = index]

DeviceCodeOutcomes == {"ok", "cancelled", "error"}

\* _authenticate up to the polling loop: the device code is requested and
\* shown ("cancelled": no client id, a status other than 200, or Cancel in
\* the message box; "error": requests.post raised).  Time is counted in
\* units of the interval the provider asks for.
authenticate(a, outcome, expires_in) ==
    IF outcome = "ok"
    THEN [a EXCEPT !.auths = @ + 1,
                   !.expires_in = expires_in,
                   !.interval = 1,
                   !.elapsed = 0,
                   !.state = "AuthenticationPending"]
    ELSE [a EXCEPT !.auths = @ + 1,
                   !.state = IF outcome = "cancelled" THEN "Cancelled" ELSE "Failed"]

PollAnswers == {"access_token", "authorization_pending", "slow_down", "expired_token",
                "access_denied", "unknown_error", "not_200", "abort", "error"}

\* time.sleep(interval) at the end of a round of the loop
sleep(a) == [a EXCEPT !.elapsed = @ + a.interval]

\* The loop is left: its local variables end with it.
leave(a, state) ==
    [a EXCEPT !.state = state, !.expires_in = 0, !.interval = 0, !.elapsed = 0]

\* Variant: slow_down is answered like authorization_pending.
poll_same_interval(a, token, uid, answer) ==
    CASE answer = "access_token" -> [a |-> leave(a, "Verifying"), token |-> uid]
      [] answer \in {"authorization_pending", "slow_down", "unknown_error", "not_200"} ->
            [a |-> sleep(a), token |-> token]
      [] answer = "error" -> [a |-> leave(a, "Failed"), token |-> token]
      [] OTHER -> [a |-> leave(a, "Cancelled"), token |-> token]

\* Variant: the end of the window leaves the flow as it is.
no_expiry(a) == a

\* One round of the polling loop of _authenticate ("abort": the progress
\* dialog was cancelled; "not_200": a status other than 200; "error":
\* requests.post raised).  The token is what the store of the slot holds.
poll_token(a, token, uid, answer) ==
    CASE answer = "access_token" -> [a |-> leave(a, "Verifying"), token |-> uid]
      [] answer \in {"authorization_pending", "unknown_error", "not_200"} ->
            [a |-> sleep(a), token |-> token]
      [] answer = "slow_down" ->
            [a |-> sleep([a EXCEPT !.interval = @ + 1]), token |-> token]
      [] answer = "error" -> [a |-> leave(a, "Failed"), token |-> token]
      [] OTHER -> [a |-> leave(a, "Cancelled"), token |-> token]

\* The loop ends because the window has passed: "Authorization timed out"
expire(a) == [leave(a, "Cancelled") EXCEPT !.timed_out = TRUE]

ProfileResponses == [raises : BOOLEAN, status_code : {200, 401, 500}]

\* Variant: whatever the profile fetch answers, the account becomes ready.
verify_accepts_any(a, token, response) ==
    [a |-> [a EXCEPT !.state = "Ready", !.status = response.status_code,
                     !.fetches = @ + 1],
     token |-> token]

\* _verify_credentials: one GET /user and what follows it, up to the next
\* request.  The first GET answered 401 clears the token and enters
\* _authenticate; the GET after that is the retry.
verify_credentials(a, token, response) ==
    LET fetched == [a EXCEPT !.fetches = @ + 1,
                             !.status = IF response.raises THEN 0 ELSE response.status_code]
    IN IF response.raises
       THEN [a |-> [fetched EXCEPT !.state = "Failed"], token |-> token]
       ELSE IF ~a.retry /\ response.status_code = 401
       THEN [a |-> [fetched EXCEPT !.state = "NoCredential", !.retry = TRUE,
                                   !.cleared = @ + 1],
             token |-> 0]
       ELSE IF response.status_code # 200
       THEN [a |-> [fetched EXCEPT !.state = "Cancelled"], token |-> token]
       ELSE [a |-> [fetched EXCEPT !.state = "Ready"], token |-> token]

\* How the constructor leaves: it returns, raises AccountSetupCancelled, or
\* raises something else.
setup_outcome(a) ==
    CASE a.state = "Ready" -> "ok"
      [] a.state = "Cancelled" -> "cancelled"
      [] OTHER -> "error"

NoSetup == [u \in 1..MaxConstructed |-> Unbuilt]
(***************************************************************************)
(* A clone / pull run (src/GUI/view.py): the dialog's thread sits in       *)
(* ShowModal while the thread run_git drives the git process.              *)
(***************************************************************************)
\* Variant: a run that succeeded is reported as a success first.
success_first(cancelled, success) ==
    IF success THEN "success" ELSE IF cancelled THEN "cancelled" ELSE "failure"

\* The message _run_git_with_progress shows once ShowModal has returned.
result_message(cancelled, success) ==
    IF cancelled THEN "cancelled" ELSE IF success THEN "success" ELSE "failure"

\* success[0] = process.returncode == 0 and not progress_dlg.cancelled
run_success(returncode, cancelled) == returncode = Some(0) /\ ~cancelled

\* run_git's loop: if progress_dlg.cancelled: process.terminate(); break
loop_terminates(cancelled) == cancelled

\* process.terminate(): the signal is sent to a process that still runs
terminate(g) == [g EXCEPT !.signalled = @ \/ g.process = "running"]

NoGit == [operation |-> "none",
          ui |-> "idle",           \* idle, modal (in ShowModal), closed (ShowModal returned), reported
          pc |-> "idle",           \* where run_git stands
          cancelled |-> FALSE,     \* progress_dlg.cancelled
          clicked |-> FALSE,       \* history: the user pressed Cancel
          dlg_process |-> FALSE,   \* progress_dlg.process is not None
          process |-> "none",      \* the git process: none, running, exited
          signalled |-> FALSE,     \* terminate() reached the running process
          returncode |-> None,     \* process.returncode
          success |-> FALSE,       \* success[0]
          posted |-> None,         \* the posted call of progress_dlg.finish (Optional)
          outcome |-> "none"]      \* the message shown

NoCycle == [pc |-> "idle",        \* idle, check, write, fill
            new_items |-> << >>,  \* the argument of _check_and_notify_<stream>
            read |-> None,        \* the snapshot the check read
            owner |-> 0,          \* history: the account object new_items was fetched from
            outcome |-> [last |-> None, toast |-> None]]   \* what the check decided

AuxIdle ==
    /\ setup = NoSetup
    /\ call = NoCall
    /\ git = NoGit
    /\ cycle = NoCycle
    /\ loading = 0

(***************************************************************************)
(* The main window.                                                        *)
(***************************************************************************)
Sum(f) ==
    LET RECURSIVE Acc(_)
        Acc(S) == IF S = {} THEN 0
                  ELSE LET u == CHOOSE x \in S : TRUE IN f[u] + Acc(S \ {u})
    IN Acc(DOMAIN f)

\* Threads and posted callbacks of the followed list that have not finished.
InFlight == spawned + Sum(waiting) + pending

\* threading.Thread(target=self._load_<stream>).start()
CanSpawn == InFlight < MaxInFlight

\* MainGui.refresh_all: the number of started threads it leaves
refresh_all(cur, n) == IF cur = 0 THEN n ELSE n + 1

\* The rows _update_<stream>_list appends: one per record, in order.
rows(coll) == coll

\* MainGui.get_selected_notification / get_selected_following_user
selected(sel) == IF sel <= Len(cache) THEN Some(cache[sel]) ELSE None

Selections == 1..Len(listbox)

on_refresh ==
    /\ CanSpawn
    /\ spawned' = refresh_all(currentAccount, spawned)
    /\ toast' = None
    /\ netCall' = "none"
    /\ UNCHANGED auxVars
    /\ UNCHANGED <<stream, notify, cache, listbox, last_ids, waiting, pending,
                   windowShown, cacheAcct, cacheOk, snapOwner, lastProcessed, nProcessed, regVars>>

on_auto_refresh ==
    /\ CanSpawn
    /\ spawned' = refresh_all(currentAccount, spawned)
    /\ toast' = None
    /\ netCall' = "none"
    /\ UNCHANGED auxVars
    /\ UNCHANGED <<stream, notify, cache, listbox, last_ids, waiting, pending,
                   windowShown, cacheAcct, cacheOk, snapOwner, lastProcessed, nProcessed, regVars>>

\* _load_<stream>, on its thread: self.app.currentAccount is read and the request sent.
load_request ==
    /\ spawned > 0
    /\ spawned' = spawned - 1
    /\ waiting' = IF currentAccount = 0 THEN waiting
                  ELSE [waiting EXCEPT ![currentAccount] = @ + 1]
    /\ toast' = None
    /\ netCall' = "worker"
    /\ UNCHANGED auxVars
    /\ UNCHANGED <<stream, notify, cache, listbox, last_ids, pending, windowShown,
                   cacheAcct, cacheOk, snapOwner, lastProcessed, nProcessed, regVars>>

\* self.<stream> = <the list the fetch returned>
loaded_cache(old, response) == IF response.raises THEN old ELSE get_list(response)

\* _load_<stream>, on its thread: the fetch returns or raises.
load_response(a, response) ==
    /\ waiting[a] > 0
    /\ waiting' = [waiting EXCEPT ![a] = @ - 1]
    /\ cache' = loaded_cache(cache, response)
    /\ cacheAcct' = IF response.raises THEN cacheAcct ELSE a
    /\ cacheOk' = IF response.raises THEN cacheOk ELSE response.status_code = 200
    /\ pending' = IF response.raises THEN pending ELSE pending + 1
    /\ toast' = None
    /\ netCall' = "worker"
    /\ UNCHANGED auxVars
    /\ UNCHANGED <<stream, notify, listbox, last_ids, spawned, windowShown,
                   snapOwner, lastProcessed, nProcessed, regVars>>

\* History: the previous run of _update_<stream>_list processed this very
\* collection, with the toggle enabled.
was_processed(previous, coll) ==
    previous # None /\ previous[1].coll = coll /\ previous[1].enabled

\* The steps that run on a thread started by refresh_all (or by a handler that
\* reloads one list), not on the UI thread.
WorkerThreadStep ==
    \/ load_request
    \/ \E a \in Uids : \E response \in Responses(stream) : load_response(a, response)

\* _update_<stream>_list, run by the event loop.
update_list ==
    /\ pending > 0
    /\ pending' = pending - 1
    /\ LET r == check_and_notify(stream, notify, last_ids, cache)
       IN /\ last_ids' = r.last
          /\ toast' = r.toast
          /\ netCall' = "none"
          /\ UNCHANGED auxVars
          /\ snapOwner' = IF stream \in DiffStreams /\ notify THEN cacheAcct ELSE snapOwner
    /\ listbox' = rows(cache)
    /\ lastProcessed' = Some([coll |-> cache, enabled |-> notify,
                               again |-> was_processed(lastProcessed, cache)])
    /\ nProcessed' = IF nProcessed = 0 THEN 1 ELSE 2
    /\ UNCHANGED <<stream, notify, cache, spawned, waiting, windowShown,
                   cacheAcct, cacheOk, regVars>>

on_close ==
    /\ windowShown' = FALSE
    /\ toast' = None
    /\ netCall' = "none"
    /\ UNCHANGED auxVars
    /\ UNCHANGED <<stream, notify, cache, listbox, last_ids, spawned, waiting, pending,
                   cacheAcct, cacheOk, snapOwner, lastProcessed, nProcessed, regVars>>

on_hide ==
    /\ windowShown' = FALSE
    /\ toast' = None
    /\ netCall' = "none"
    /\ UNCHANGED auxVars
    /\ UNCHANGED <<stream, notify, cache, listbox, last_ids, spawned, waiting, pending,
                   cacheAcct, cacheOk, snapOwner, lastProcessed, nProcessed, regVars>>

toggle_visibility ==
    /\ windowShown' = ~windowShown
    /\ toast' = None
    /\ netCall' = "none"
    /\ UNCHANGED auxVars
    /\ UNCHANGED <<stream, notify, cache, listbox, last_ids, spawned, waiting, pending,
                   cacheAcct, cacheOk, snapOwner, lastProcessed, nProcessed, regVars>>

\* The preference store's set of the stream's toggle.
set_notify(b) ==
    /\ stream \in DiffStreams
    /\ notify # b
    /\ notify' = b
    /\ toast' = None
    /\ netCall' = "none"
    /\ UNCHANGED auxVars
    /\ UNCHANGED <<stream, cache, listbox, last_ids, spawned, waiting, pending,
                   windowShown, cacheAcct, cacheOk, snapOwner, lastProcessed, nProcessed, regVars>>

(***************************************************************************)
(* The accounts dialog, modal over the main window.                        *)
(***************************************************************************)
on_switch(selection) ==
    /\ selection < Len(accounts)
    /\ CanSpawn
    /\ SetReg(switch_account(Reg, selection))
    /\ spawned' = refresh_all(accounts[selection + 1].uid, spawned)
    /\ toast' = None
    /\ netCall' = "none"
    /\ UNCHANGED auxVars
    /\ UNCHANGED <<stream, notify, cache, listbox, last_ids, waiting, pending,
                   windowShown, cacheAcct, cacheOk, snapOwner, lastProcessed, nProcessed>>

\* prefs.accounts after on_add: raised before add_session, lowered again in the
\* handler of an exception other than AccountSetupCancelled
on_add_count(n, outcome) == IF outcome = "error" THEN n ELSE n + 1

on_add(outcome) ==
    /\ Len(accounts) < MaxAccounts
    /\ constructed < MaxConstructed
    /\ CanSpawn
    /\ LET r == add_session(Reg, Len(accounts), constructed + 1, outcome)
       IN /\ SetRegNew([r EXCEPT !.prefs_accounts = on_add_count(@, outcome)])
          /\ spawned' = IF outcome = "error" THEN spawned
                        ELSE refresh_all(r.currentAccount, spawned)
    /\ toast' = None
    /\ netCall' = "ui"
    /\ UNCHANGED auxVars
    /\ UNCHANGED <<stream, notify, cache, listbox, last_ids, waiting, pending,
                   windowShown, cacheAcct, cacheOk, snapOwner, lastProcessed, nProcessed>>

on_remove(selection) ==
    /\ selection < Len(accounts)
    /\ Len(accounts) > 1
    /\ CanSpawn
    /\ LET r == remove_account(Reg, selection)
       IN /\ SetReg(r)
          /\ spawned' = refresh_all(r.currentAccount, spawned)
    /\ toast' = None
    /\ netCall' = "none"
    /\ UNCHANGED auxVars
    /\ UNCHANGED <<stream, notify, cache, listbox, last_ids, waiting, pending,
                   windowShown, cacheAcct, cacheOk, snapOwner, lastProcessed, nProcessed>>

(***************************************************************************)
(* Handlers of the Following and Notifications tabs that change something  *)
(* on the service: the call is made in the handler, and a True result      *)
(* starts a reload thread.                                                 *)
(***************************************************************************)
mutate_selected(tab, sel, ok) ==
    /\ stream = tab
    /\ selected(sel) # None
    /\ currentAccount # 0
    /\ CanSpawn
    /\ spawned' = IF ok THEN spawned + 1 ELSE spawned
    /\ toast' = None
    /\ netCall' = "ui"
    /\ UNCHANGED auxVars
    /\ UNCHANGED <<stream, notify, cache, listbox, last_ids, waiting, pending,
                   windowShown, cacheAcct, cacheOk, snapOwner, lastProcessed, nProcessed, regVars>>

on_unfollow_user(sel, ok) == mutate_selected("following", sel, ok)

on_mark_notification_read(sel, ok) ==
    mutate_selected("notifications", sel, ok)

on_mark_notification_done(sel, ok) ==
    mutate_selected("notifications", sel, ok)

on_mute_notification(sel, ok) ==
    mutate_selected("notifications", sel, ok)

(***************************************************************************)
(* The state after MainGui.__init__: Application.load() has constructed    *)
(* the configured accounts, the caches are empty, the snapshots None, and  *)
(* refresh_all() has started the first thread.  The toggle is what the     *)
(* preference store holds.                                                 *)
(***************************************************************************)
LoadedAccounts(n) == [i \in 1..n |-> [uid |-> i, index |-> i - 1, token |-> -i]]

LoadedStores(n) == [i \in Slots |-> IF i < n THEN -(i + 1) ELSE 0]

Constructed(n) ==
    /\ AuxIdle
    /\ stream \in Lists
    /\ notify \in (IF stream \in DiffStreams THEN BOOLEAN ELSE {FALSE})
    /\ cache = << >>
    /\ listbox = << >>
    /\ last_ids = None
    /\ spawned = 1
    /\ waiting = [u \in Uids |-> 0]
    /\ pending = 0
    /\ accounts = LoadedAccounts(n)
    /\ prefs_accounts = n
    /\ stores = LoadedStores(n)
    /\ currentAccount = 1
    /\ exitRequested = FALSE
    /\ constructed = n
    /\ toast = None
    /\ cacheAcct = 0
    /\ cacheOk = TRUE
    /\ snapOwner = 0
    /\ lastProcessed = None
    /\ nProcessed = 0
    /\ netCall = "none"

(***************************************************************************)
(* Spec: the main window with its threads, the accounts dialog and the     *)
(* handlers that call the service; the service answers with short lists.   *)
(* Nothing here writes a toggle: it keeps the value the store held at      *)
(* launch.                                                                 *)
(***************************************************************************)
Init ==
    /\ windowShown \in BOOLEAN
    /\ \E n \in 1..MaxAccounts : Constructed(n)

Next ==
    \/ on_refresh
    \/ on_auto_refresh
    \/ load_request
    \/ \E a \in Uids : \E response \in ShortResponses(stream) : load_response(a, response)
    \/ update_list
    \/ on_close
    \/ on_hide
    \/ toggle_visibility
    \/ \E selection \in 0..(MaxAccounts - 1) : on_switch(selection)
    \/ \E outcome \in SetupOutcomes : on_add(outcome)
    \/ \E selection \in 0..(MaxAccounts - 1) : on_remove(selection)
    \/ \E sel \in Selections : \E ok \in BOOLEAN : on_unfollow_user(sel, ok)
    \/ \E sel \in Selections : \E ok \in BOOLEAN : on_mark_notification_read(sel, ok)
    \/ \E sel \in Selections : \E ok \in BOOLEAN : on_mark_notification_done(sel, ok)
    \/ \E sel \in Selections : \E ok \in BOOLEAN : on_mute_notification(sel, ok)

Spec == Init /\ [][Next]_vars

(***************************************************************************)
(* SpecDiff: one account, the window shown; refreshes of the followed      *)
(* list, with every answer the service can give for it, and the toggle of  *)
(* the list set and cleared in the preference store while it runs.         *)
(***************************************************************************)
InitDiff ==
    /\ windowShown = TRUE
    /\ Constructed(1)

NextDiff ==
    \/ on_refresh
    \/ load_request
    \/ \E a \in Uids : \E response \in Responses(stream) : load_response(a, response)
    \/ update_list
    \/ \E b \in BOOLEAN : set_notify(b)

SpecDiff == InitDiff /\ [][NextDiff]_vars

(***************************************************************************)
(* SpecOverlap: refreshes of the followed list that overlap, with the      *)
(* posted callback _update_<stream>_list followed statement by statement.  *)
(* refresh_all starts its threads whatever is still running, so one more   *)
(* fetch than MaxInFlight can be under way; the service answers every      *)
(* fetch with 200, and there are two accounts.  A handler runs only       *)
(* between two callbacks: the event loop runs one at a time, and           *)
(* show_notification returns at once.                                      *)
(***************************************************************************)
CanOverlap == InFlight <= MaxInFlight /\ cycle.pc = "idle"

\* A record the short answers do not hold: another item of the list.
OtherRecord(s) == <<[id |-> MaxId + 1, attr |-> OneRecord(s)[1].attr]>>

Answers(s) == {r \in ResponsesWith({<< >>, OneRecord(s), OtherRecord(s)}) :
                  ~r.raises /\ r.status_code = 200}

\* Variant: the check reads the field again instead of its argument.
field_read_again(argument, field) == field

\* _check_and_notify_<stream>(new_items): the collection it diffs is its
\* argument, the list object self.<stream> named when the call was made
diffed(argument, field) == argument

overlap_refresh ==
    /\ CanOverlap
    /\ spawned' = refresh_all(currentAccount, spawned)
    /\ toast' = None
    /\ netCall' = "none"
    /\ UNCHANGED auxVars
    /\ UNCHANGED <<stream, notify, cache, listbox, last_ids, waiting, pending,
                   windowShown, cacheAcct, cacheOk, snapOwner, lastProcessed, nProcessed, regVars>>

overlap_switch(selection) ==
    /\ selection < Len(accounts)
    /\ CanOverlap
    /\ SetReg(switch_account(Reg, selection))
    /\ spawned' = refresh_all(accounts[selection + 1].uid, spawned)
    /\ toast' = None
    /\ netCall' = "none"
    /\ UNCHANGED auxVars
    /\ UNCHANGED <<stream, notify, cache, listbox, last_ids, waiting, pending,
                   windowShown, cacheAcct, cacheOk, snapOwner, lastProcessed, nProcessed>>

\* on_mark_notification_read / _done / on_mute_notification with a refresh
\* under way: get_selected_notification, the call, and the reload thread
overlap_mark(sel, ok) ==
    /\ stream = "notifications"
    /\ selected(sel) # None
    /\ currentAccount # 0
    /\ CanOverlap
    /\ spawned' = IF ok THEN spawned + 1 ELSE spawned
    /\ toast' = None
    /\ netCall' = "ui"
    /\ UNCHANGED auxVars
    /\ UNCHANGED <<stream, notify, cache, listbox, last_ids, waiting, pending,
                   windowShown, cacheAcct, cacheOk, snapOwner, lastProcessed, nProcessed, regVars>>

CycleStep(c) ==
    /\ cycle' = c
    /\ netCall' = "none"
    /\ UNCHANGED <<stream, notify, cache, spawned, waiting, windowShown, cacheAcct,
                   cacheOk, regVars, setup, call, git, loading>>

\* the event loop takes the posted callback: self._check_and_notify_<stream>(self.<stream>)
cycle_begin ==
    /\ pending > 0
    /\ cycle.pc = "idle"
    /\ pending' = pending - 1
    /\ toast' = None
    /\ CycleStep([NoCycle EXCEPT !.pc = "check", !.new_items = cache, !.owner = cacheAcct])
    /\ UNCHANGED <<listbox, last_ids, snapOwner, lastProcessed, nProcessed>>

\* the toggle and the stored snapshot are read, the new items are worked out
cycle_check ==
    /\ cycle.pc = "check"
    /\ toast' = None
    /\ CycleStep([cycle EXCEPT !.pc = "write",
                               !.read = last_ids,
                               !.outcome = check_and_notify(stream, notify, last_ids,
                                                            diffed(cycle.new_items, cache))])
    /\ UNCHANGED <<listbox, last_ids, pending, snapOwner, lastProcessed, nProcessed>>

\* show_notification, then self._last_<stream>_ids = new_ids
cycle_write ==
    /\ cycle.pc = "write"
    /\ toast' = cycle.outcome.toast
    /\ last_ids' = cycle.outcome.last
    /\ snapOwner' = IF stream \in DiffStreams /\ notify THEN cycle.owner ELSE snapOwner
    /\ CycleStep([cycle EXCEPT !.pc = "fill"])
    /\ UNCHANGED <<listbox, pending, lastProcessed, nProcessed>>

\* the list box is cleared and filled from self.<stream>
cycle_fill ==
    /\ cycle.pc = "fill"
    /\ listbox' = rows(cache)
    /\ lastProcessed' = Some([coll |-> cycle.new_items, enabled |-> notify,
                               again |-> was_processed(lastProcessed, cycle.new_items)])
    /\ nProcessed' = IF nProcessed = 0 THEN 1 ELSE 2
    /\ toast' = None
    /\ CycleStep(NoCycle)
    /\ UNCHANGED <<last_ids, pending, snapOwner>>

InitOverlap ==
    /\ windowShown = TRUE
    /\ Constructed(2)

NextOverlap ==
    \/ overlap_refresh
    \/ \E selection \in 0..1 : overlap_switch(selection)
    \/ \E sel \in Selections : \E ok \in BOOLEAN : overlap_mark(sel, ok)
    \/ load_request
    \/ \E a \in Uids : \E response \in Answers(stream) : load_response(a, response)
    \/ cycle_begin
    \/ cycle_check
    \/ cycle_write
    \/ cycle_fill

SpecOverlap == InitOverlap /\ [][NextOverlap]_vars

(***************************************************************************)
(* SpecRegistry: the registry alone, driven through Application's own      *)
(* methods from the state Application.__init__ leaves (no account, no      *)
(* current account), before any window exists.  The stores of earlier runs *)
(* are on disk, and prefs.accounts is what the preference store holds.     *)
(***************************************************************************)
NoWindow ==
    /\ AuxIdle
    /\ stream = "feed"
    /\ notify = FALSE
    /\ cache = << >>
    /\ listbox = << >>
    /\ last_ids = None
    /\ spawned = 0
    /\ waiting = [u \in Uids |-> 0]
    /\ pending = 0
    /\ windowShown = FALSE
    /\ toast = None
    /\ cacheAcct = 0
    /\ cacheOk = TRUE
    /\ snapOwner = 0
    /\ lastProcessed = None
    /\ nProcessed = 0
    /\ netCall = "none"

\* Application.add_session(index=None): index = len(self.accounts)
app_add_session(outcome) ==
    /\ Len(accounts) < MaxAccounts
    /\ constructed < MaxObjects
    /\ SetRegNew(add_session(Reg, Len(accounts), constructed + 1, outcome))
    /\ netCall' = "ui"
    /\ UNCHANGED auxVars
    /\ UNCHANGED guiVars

app_remove_account(index) ==
    /\ SetReg(remove_account(Reg, index))
    /\ netCall' = "none"
    /\ UNCHANGED auxVars
    /\ UNCHANGED guiVars

\* self.app.currentAccount = self.app.accounts[selection]
app_switch(selection) ==
    /\ selection < Len(accounts)
    /\ SetReg(switch_account(Reg, selection))
    /\ netCall' = "none"
    /\ UNCHANGED auxVars
    /\ UNCHANGED guiVars

InitRegistry ==
    /\ NoWindow
    /\ accounts = << >>
    /\ currentAccount = 0
    /\ prefs_accounts \in 1..MaxAccounts
    /\ \E n \in 0..MaxAccounts : stores = LoadedStores(n)
    /\ exitRequested = FALSE
    /\ constructed = 0

NextRegistry ==
    \/ \E outcome \in SetupOutcomes : app_add_session(outcome)
    \/ \E index \in -1..MaxAccounts : app_remove_account(index)
    \/ \E selection \in 0..(MaxAccounts - 1) : app_switch(selection)

SpecRegistry == InitRegistry /\ [][NextRegistry]_vars

(***************************************************************************)
(* SpecLoad: Application.load constructs the account of slot 0 and then    *)
(* those of slots 1 .. prefs.accounts - 1, whatever became of the earlier  *)
(* ones; once it has returned, and unless the exit was asked for, accounts *)
(* are removed and switched.                                               *)
(***************************************************************************)
\* load: self.add_session() for slot 0, self.add_session(i) for the others;
\* an exception other than AccountSetupCancelled leaves load (-1).
load_add_session(outcome) ==
    /\ loading >= 0
    /\ loading < prefs_accounts
    /\ constructed < MaxObjects
    /\ SetRegNew(add_session(Reg, IF loading = 0 THEN Len(accounts) ELSE loading,
                             constructed + 1, outcome))
    /\ loading' = IF outcome = "error" THEN -1 ELSE loading + 1
    /\ netCall' = "ui"
    /\ UNCHANGED <<guiVars, setup, call, git, cycle>>

Loaded == loading >= prefs_accounts /\ ~exitRequested

loaded_remove_account(index) == Loaded /\ app_remove_account(index)

loaded_switch(selection) == Loaded /\ app_switch(selection)

InitLoad ==
    /\ NoWindow
    /\ accounts = << >>
    /\ currentAccount = 0
    /\ prefs_accounts \in 0..(MaxAccounts + 1)
    /\ \E n \in 0..(MaxAccounts + 1) : stores = LoadedStores(n)
    /\ exitRequested = FALSE
    /\ constructed = 0

NextLoad ==
    \/ \E outcome \in SetupOutcomes : load_add_session(outcome)
    \/ \E index \in -1..MaxAccounts : loaded_remove_account(index)
    \/ \E selection \in 0..MaxAccounts : loaded_switch(selection)

SpecLoad == InitLoad /\ [][NextLoad]_vars

(***************************************************************************)
(* SpecSetup: Application.add_session with the constructor of the account  *)
(* followed from request to request, from the empty registry of            *)
(* Application.__init__.  The constructor runs on the thread of the        *)
(* handlers, so the registry's other operations wait for it; refreshes     *)
(* (the timer, and the requests of the threads they start) come at any     *)
(* time.  What the requests bring back is followed in Spec.                *)
(***************************************************************************)
\* The account object under construction is the latest one.
Building == constructed > 0 /\ ~setup[constructed].returned

SetupStep(a, token, net) ==
    /\ setup' = [setup EXCEPT ![constructed] = a]
    /\ stores' = [stores EXCEPT ![a.index] = token]
    /\ netCall' = net
    /\ UNCHANGED <<guiVars, accounts, currentAccount, prefs_accounts, exitRequested,
                   constructed, call, git, cycle, loading>>

\* add_session: account = github_api.GitHubAccount(self, len(self.accounts))
add_session_begin ==
    /\ ~Building
    /\ Len(accounts) < MaxAccounts
    /\ constructed < MaxConstructed
    /\ constructed' = constructed + 1
    /\ setup' = [setup EXCEPT ![constructed + 1] =
                     init_account(Len(accounts), stores[Len(accounts)])]
    /\ netCall' = "none"
    /\ UNCHANGED <<guiVars, accounts, currentAccount, prefs_accounts, stores,
                   exitRequested, call, git, cycle, loading>>

do_authenticate(outcome, expires_in) ==
    /\ Building
    /\ setup[constructed].state = "NoCredential"
    /\ SetupStep(authenticate(setup[constructed], outcome, expires_in),
                 stores[setup[constructed].index], "ui")

\* while time.time() - start_time < expires_in: one round
do_poll(answer) ==
    /\ Building
    /\ setup[constructed].state = "AuthenticationPending"
    /\ setup[constructed].elapsed < setup[constructed].expires_in
    /\ LET r == poll_token(setup[constructed], stores[setup[constructed].index],
                           constructed, answer)
       IN SetupStep(r.a, r.token, "ui")

\* the loop is left with no token
do_expire ==
    /\ Building
    /\ setup[constructed].state = "AuthenticationPending"
    /\ setup[constructed].elapsed >= setup[constructed].expires_in
    /\ SetupStep(expire(setup[constructed]), stores[setup[constructed].index], "none")

do_verify(response) ==
    /\ Building
    /\ setup[constructed].state = "Verifying"
    /\ LET r == verify_credentials(setup[constructed], stores[setup[constructed].index],
                                   response)
       IN SetupStep(r.a, r.token, "ui")

\* add_session after the constructor: the append, or the except clause
add_session_end ==
    /\ Building
    /\ setup[constructed].state \notin InProgress
    /\ SetReg(add_session(Reg, setup[constructed].index, constructed,
                          setup_outcome(setup[constructed])))
    /\ setup' = [setup EXCEPT ![constructed].returned = TRUE]
    /\ netCall' = "none"
    /\ UNCHANGED <<guiVars, call, git, cycle, loading>>

idle_remove_account(index) == ~Building /\ app_remove_account(index)

idle_switch(selection) == ~Building /\ app_switch(selection)

Polling == \E answer \in PollAnswers : do_poll(answer)

NextSetup ==
    \/ add_session_begin
    \/ \E outcome \in DeviceCodeOutcomes : \E expires_in \in 0..1 :
           do_authenticate(outcome, expires_in)
    \/ Polling
    \/ do_expire
    \/ \E response \in ProfileResponses : do_verify(response)
    \/ add_session_end
    \/ \E index \in -1..MaxAccounts : idle_remove_account(index)
    \/ \E selection \in 0..(MaxAccounts - 1) : idle_switch(selection)
    \/ on_refresh
    \/ load_request

SpecSetup == InitRegistry /\ [][NextSetup]_vars

\* The constructor alone, one account after the other, with the polling
\* loop of _authenticate running on: every request is answered, and the loop
\* condition is evaluated.
NextPoll ==
    \/ add_session_begin
    \/ \E outcome \in DeviceCodeOutcomes : \E expires_in \in 0..MaxExpires :
           do_authenticate(outcome, expires_in)
    \/ Polling
    \/ do_expire
    \/ \E response \in ProfileResponses : do_verify(response)
    \/ add_session_end

SpecPoll == InitRegistry /\ [][NextPoll]_vars /\ WF_vars(Polling) /\ WF_vars(do_expire)

(***************************************************************************)
(* SpecPaging: one ready account whose methods are called, one call at a   *)
(* time, against every service of Servers; `call` keeps the call and what  *)
(* it gave back until the caller has taken it.                             *)
(***************************************************************************)
Called(op, server, per_page, max_commits, result) ==
    /\ call = NoCall
    /\ call' = [op |-> op, server |-> server, per_page |-> per_page,
                max_commits |-> max_commits, result |-> result]
    /\ UNCHANGED <<guiVars, netCall, regVars, setup, git, cycle, loading>>

\* account.get_repos() and the methods with the same loop
call_paged(op, server, per_page) ==
    Called(op, server, per_page, 0, list_operation(op, server, per_page, 0))

\* CommitsDialog.load_commits: account.get_commits(owner, repo, sha, max_commits=commit_limit)
call_get_commits(server, per_page, max_commits) ==
    Called("get_commits", server, per_page, max_commits,
           list_operation("get_commits", server, per_page, max_commits))

\* account.get_workflow_runs(owner, repo)
call_get_workflow_runs(server, per_page) ==
    Called("get_workflow_runs", server, per_page, 0,
           list_operation("get_workflow_runs", server, per_page, 0))

\* account.get_repo(owner, repo)
call_get_repo(server) == Called("get_repo", server, 1, 0, get_repo(server))

\* account.star_repo(owner, repo) / account.unstar_repo(owner, repo)
call_star_repo(server) == Called("star_repo", server, 1, 0, star_repo(server))

\* The caller goes on with what the method gave it (or with the exception).
call_taken ==
    /\ call # NoCall
    /\ call' = NoCall
    /\ UNCHANGED <<guiVars, netCall, regVars, setup, git, cycle, loading>>

InitPaging ==
    /\ windowShown = TRUE
    /\ Constructed(1)

NextPaging ==
    \/ \E op \in PagedOperations : \E server \in Servers : \E per_page \in 1..MaxPerPage :
           call_paged(op, server, per_page)
    \/ \E server \in Servers : \E per_page \in 1..MaxPerPage : \E max_commits \in 0..MaxHistory :
           call_get_commits(server, per_page, max_commits)
    \/ \E server \in Servers : \E per_page \in 1..MaxPerPage :
           call_get_workflow_runs(server, per_page)
    \/ \E server \in Servers : call_get_repo(server)
    \/ \E server \in Servers : call_star_repo(server)
    \/ call_taken

SpecPaging == InitPaging /\ [][NextPaging]_vars

(***************************************************************************)
(* SpecGit: clone and pull runs of the repository dialog, one after the    *)
(* other, with the Cancel button, the git process and the thread run_git   *)
(* interleaved in every order.                                             *)
(***************************************************************************)
GitStep(g) ==
    /\ git' = g
    /\ UNCHANGED <<guiVars, netCall, regVars, setup, call, cycle, loading>>

\* do_git_clone / do_git_pull: a new dialog; _run_git_with_progress starts
\* the thread and enters ShowModal.  (The run before has ended.)
do_git(operation) ==
    /\ git.ui \in {"idle", "reported"}
    /\ git.pc \in {"idle", "done"}
    /\ git.posted = None
    /\ GitStep([NoGit EXCEPT !.operation = operation, !.ui = "modal", !.pc = "popen"])

\* run_git: process = subprocess.Popen(cmd, ...), which starts git or raises
run_git_popen(started) ==
    /\ git.pc = "popen"
    /\ GitStep(IF started
               THEN [git EXCEPT !.process = "running", !.pc = "assign"]
               ELSE [git EXCEPT !.pc = "post"])

\* run_git: progress_dlg.process = process
run_git_assign ==
    /\ git.pc = "assign"
    /\ GitStep([git EXCEPT !.dlg_process = TRUE, !.pc = "loop"])

\* run_git: the head of the loop
run_git_loop ==
    /\ git.pc = "loop"
    /\ GitStep(IF loop_terminates(git.cancelled)
               THEN [terminate(git) EXCEPT !.pc = "communicate"]
               ELSE [git EXCEPT !.pc = "readline"])

\* run_git: process.stderr.readline() gives a line that git wrote
run_git_line ==
    /\ git.pc = "readline"
    /\ git.process = "running"
    /\ GitStep([git EXCEPT !.pc = "loop"])

\* run_git: readline() gives "" at the end of the stream and poll() the exit code
run_git_eof ==
    /\ git.pc = "readline"
    /\ git.process = "exited"
    /\ GitStep([git EXCEPT !.pc = "communicate"])

\* run_git: process.communicate() returns once git has exited; success[0] is set
run_git_communicate ==
    /\ git.pc = "communicate"
    /\ git.process = "exited"
    /\ GitStep([git EXCEPT !.success = run_success(git.returncode, git.cancelled),
                           !.pc = "post"])

\* run_git: wx.CallAfter(progress_dlg.finish, success[0])
run_git_post ==
    /\ git.pc = "post"
    /\ GitStep([git EXCEPT !.posted = Some(git.success), !.pc = "done"])

\* git ends by itself, with exit code 0 or 1
process_exit(code) ==
    /\ git.process = "running"
    /\ GitStep([git EXCEPT !.process = "exited", !.returncode = Some(code)])

\* git dies of the signal terminate() sent
process_terminated ==
    /\ git.process = "running"
    /\ git.signalled
    /\ GitStep([git EXCEPT !.process = "exited", !.returncode = Some(-15)])

\* GitProgressDialog.on_cancel, while the dialog is modal
on_cancel ==
    /\ git.ui = "modal"
    /\ GitStep([(IF git.dlg_process THEN terminate(git) ELSE git)
                   EXCEPT !.cancelled = TRUE, !.clicked = TRUE, !.ui = "closed"])

\* GitProgressDialog.finish, called from the event loop: EndModal; on a
\* dialog that has left ShowModal it ends nothing.
finish ==
    /\ git.posted # None
    /\ GitStep([git EXCEPT !.posted = None,
                           !.ui = IF @ = "modal" THEN "closed" ELSE @])

\* _run_git_with_progress after ShowModal: the result message
show_result ==
    /\ git.ui = "closed"
    /\ GitStep([git EXCEPT !.outcome = result_message(git.cancelled, git.success),
                           !.ui = "reported"])

InitGit ==
    /\ windowShown = TRUE
    /\ Constructed(1)

RunGit ==
    \/ \E started \in BOOLEAN : run_git_popen(started)
    \/ run_git_assign
    \/ run_git_loop
    \/ run_git_eof
    \/ run_git_communicate
    \/ run_git_post

NextGit ==
    \/ \E operation \in {"clone", "pull"} : do_git(operation)
    \/ RunGit
    \/ run_git_line
    \/ \E code \in {0, 1} : process_exit(code)
    \/ process_terminated
    \/ on_cancel
    \/ finish
    \/ show_result

\* The thread run_git is scheduled, and a signalled process dies; when git
\* writes or ends by itself, and what the user does, is left open.
SpecGit ==
    /\ InitGit
    /\ [][NextGit]_vars
    /\ WF_vars(RunGit)
    /\ WF_vars(process_terminated)

(***************************************************************************)
(* The properties.  The key set of a collection and the set of its items   *)
(* that are new or updated relative to a key set are stated here as the    *)
(* specification words them.                                               *)
(***************************************************************************)
DiffStep == update_list /\ stream \in DiffStreams

KeyOf(s, item) ==
    IF s \in {"starred", "watched"}
    THEN <<item.id, IF item.attr = 0 THEN "" ELSE isoformat(item.attr)>>
    ELSE item.id

KeySet(s, coll) ==
    {KeyOf(s, coll[i]) : i \in {j \in DOMAIN coll : s = "notifications" => coll[j].attr = 1}}

NewOrUpdated(s, previous, coll) ==
    IF s \in {"starred", "watched"}
    THEN {coll[i].id : i \in {j \in DOMAIN coll :
                                 /\ KeyOf(s, coll[j]) \notin previous
                                 /\ \E k \in previous : k[1] = coll[j].id}}
    ELSE KeySet(s, coll) \ previous

\* C1: for each of the four streams, the first fetch result processed after
\* launch raises no desktop notification, whatever the collection holds.
C1_FirstFetchNeverNotifies ==
    [][DiffStep /\ nProcessed = 0 => toast' = None]_vars

\* C1 witness: the first result was processed with the toggle enabled and a
\* record in the collection; its keys are the snapshot and nothing was raised.
C1_Witness ==
    /\ stream \in DiffStreams
    /\ nProcessed = 1
    /\ notify
    /\ lastProcessed[1].coll # << >>
    /\ last_ids = Some(KeySet(stream, lastProcessed[1].coll))
    /\ last_ids[1] # {}
    /\ toast = None

C5_FailedFetchKeepsSnapshot ==
    [][DiffStep /\ ~cacheOk => last_ids' = last_ids]_vars

\* C6: the key set taken from one account's fetch is never the 'previous' set
\* in the diff of a fetch made for another account.
C6_SnapshotNotSharedAcrossAccounts ==
    [][DiffStep /\ notify /\ last_ids # None => snapOwner = cacheAcct]_vars

\* C7: once the snapshot is a concrete set it never returns to None, whatever
\* the step: account switch, add or remove, window hide or show, manual or
\* timer-driven refresh, a thread's step or a processed fetch.
C7_SnapshotNeverReset ==
    [][last_ids # None => last_ids' # None]_vars

\* C7 witness: the snapshot is concrete after the account it was taken from was
\* removed from the registry and the window was hidden.
C7_Witness ==
    /\ last_ids # None
    /\ snapOwner # currentAccount
    /\ \A i \in DOMAIN accounts : accounts[i].uid # snapOwner
    /\ ~windowShown

\* C8: worker threads never write the cached collections: a step of a
\* _load_<stream> thread leaves the cache unchanged.
C8_WorkersNeverWriteCaches ==
    [][WorkerThreadStep => cache' = cache]_vars

\* C9: no Account network operation is ever executed on the UI thread.
C9_NoNetworkOnUiThread == netCall # "ui"

\* C10: over every sequence of add_session, remove_account and switch: a
\* non-empty account list has the current account among its members, an empty
\* one has no current account.
C10_RegistryInvariant ==
    /\ accounts # << >> => \E i \in DOMAIN accounts : accounts[i].uid = currentAccount
    /\ accounts = << >> => currentAccount = 0

\* C10 witness: the only remaining account was removed: the registry is empty
\* and there is no current account (prefs.accounts starts at 1 or more and only
\* a removal lowers it).
C10_Witness ==
    /\ accounts = << >>
    /\ currentAccount = 0
    /\ prefs_accounts = 0
    /\ constructed > 0

\* C11: after any sequence of add_session and remove_account the account at
\* position i of the registry has slot index i (GitHubAccount.index = i), the
\* slot of the persisted store account<i> it is bound to.
C11_SlotsAlignedWithPosition ==
    \A i \in DOMAIN accounts : accounts[i].index = i - 1

\* C12: removing the account at slot k from a registry of N accounts with a
\* persisted count of N leaves N-1 accounts and a count of N-1; the stores below
\* k are unchanged, the store of slot k is gone, the store of every slot j with
\* k < j < N is afterwards at slot j-1, and no store is left at slot N-1.
C12_RemoveShiftsStores ==
    [][\A k \in Slots :
          (app_remove_account(k) /\ k < Len(accounts) /\ prefs_accounts = Len(accounts))
          => LET N == Len(accounts)
             IN /\ Len(accounts') = N - 1
                /\ \A i \in 1..(N - 1) :
                       accounts'[i] = accounts[IF i <= k THEN i ELSE i + 1]
                /\ prefs_accounts' = N - 1
                /\ \A i \in 0..(N - 1) :
                       stores'[i] = IF i < k THEN stores[i]
                                    ELSE IF i + 1 < N THEN stores[i + 1]
                                    ELSE 0]_vars

\* C12 witness: slot 0 of a registry of two accounts (count 2) was removed: the
\* account constructed for slot 1 is alone, its store is at slot 0 and slot 1
\* holds no store.
C12_Witness ==
    /\ Len(accounts) = 1
    /\ accounts[1].index = 1
    /\ prefs_accounts = 1
    /\ stores[0] \in {accounts[1].uid, -2}
    /\ stores[1] = 0

\* C13: a setup cancelled while the registry is empty produces the exit signal
\* and leaves the registry empty with no current account; a setup cancelled
\* while an account exists produces no exit signal and leaves the account list
\* and the current account as they were.
C13_CancelledSetup ==
    [][app_add_session("cancelled")
          => IF accounts = << >>
             THEN exitRequested' /\ accounts' = << >> /\ currentAccount' = 0
             ELSE /\ exitRequested' = exitRequested
                  /\ accounts' = accounts
                  /\ currentAccount' = currentAccount]_vars

\* C13 witness: a setup was cancelled on the empty registry: the exit was asked
\* for, no account is registered and none is current.
C13_Witness ==
    /\ exitRequested
    /\ constructed > 0
    /\ accounts = << >>
    /\ currentAccount = 0

PushString(repo) == IF repo.attr = 0 THEN "" ELSE isoformat(repo.attr)

UpdatedIds(previous, repos) ==
    {repos[i].id : i \in {j \in DOMAIN repos :
                            \E k \in previous : k[1] = repos[j].id /\ k[2] # PushString(repos[j])}}

\* C20: for the starred and watched streams a repository counts as updated
\* exactly when its id is in the prior snapshot with another last-push string
\* ("" for no push time): one absent from the snapshot or with the same string
\* is not counted; the notification gives the number of updated repositories
\* and names one of them, and the snapshot becomes the key set of the fetch.
C20_UpdatedRepositories ==
    [][(update_list /\ stream \in {"starred", "watched"} /\ notify /\ last_ids # None)
          => LET updated == UpdatedIds(last_ids[1], cache)
             IN /\ toast' = None <=> updated = {}
                /\ toast' # None => /\ toast'[1].count = Cardinality(updated)
                                    /\ toast'[1].item \in updated
                /\ last_ids' = Some({<<cache[i].id, PushString(cache[i])>> : i \in DOMAIN cache})]_vars

\* C20 witness: a fetch of the starred stream holding repository 1 with the
\* second push time was diffed against a snapshot holding repository 1 with
\* another push string: one notification for repository 1, and the new pair is
\* the snapshot.
C20_Witness ==
    /\ stream = "starred"
    /\ nProcessed = 2
    /\ toast = Note(1, 1)
    /\ last_ids = Some({<<1, isoformat(2)>>})

\* The records 1..n of a list endpoint, in the order it lists them.
FirstRecords(n) == [i \in 1..n |-> i]

\* The page in which record number m is listed.
PageOf(m, per_page) == ((m - 1) \div per_page) + 1

\* C16: get_commits with a maximum M > 0 against a history of at least M
\* commits returns exactly the first M commits in page order and sends no
\* request after the one for the page in which the M-th commit is listed;
\* with fewer than M commits, or with M = 0, it returns every commit.  (No
\* request of the call fails.)
C16_GetCommitsMaximum ==
    (call.op = "get_commits" /\ call.server.fail_page = 0)
    => LET M == call.max_commits
           H == call.server.total
       IN /\ ~call.result.raised
          /\ IF M > 0 /\ H >= M
             THEN /\ call.result.value = FirstRecords(M)
                  /\ call.result.requests = PageOf(M, commits_per_page(call.per_page, M))
             ELSE call.result.value = FirstRecords(H)

\* C16 witness: three pages of MaxPerPage commits and a maximum of one page
\* and a half: the maximum is reached inside the second page, and the third
\* page is never requested.
C16_Witness ==
    /\ call.op = "get_commits"
    /\ call.per_page = 2
    /\ call.server = [total |-> 6, fail_page |-> 0, fail_kind |-> "status"]
    /\ call.max_commits = 3
    /\ call.result = Returned(<<1, 2, 3>>, 2)

\* C17: every list operation whose requests all succeed returns the records
\* of all pages in page order: none beyond the first page is dropped.
C17_AllPagesReturned ==
    (call.op \in ListOperations /\ call.server.fail_page = 0 /\ call.max_commits = 0)
    => /\ ~call.result.raised
       /\ call.result.value = FirstRecords(call.server.total)

\* A request of the latest call failed.
MetFailure ==
    /\ call.op # "none"
    /\ call.server.fail_page \in 1..call.result.requests

FailureSentinel(op) ==
    CASE op = "get_repo" -> None
      [] op = "star_repo" -> FALSE
      [] OTHER -> << >>

\* C18: an operation one of whose requests failed returns its failure
\* sentinel and does not raise.
C18_FailureSentinel ==
    MetFailure => /\ ~call.result.raised
                  /\ call.result.value = FailureSentinel(call.op)


\* C19, outcome: a run in which the user pressed Cancel is reported as
\* cancelled; a run in which they did not is reported as a success if and
\* only if git exited with code 0, and as a failure otherwise.
C19_Outcome ==
    git.outcome # "none"
    => IF git.clicked THEN git.outcome = "cancelled"
       ELSE IF git.process = "exited" /\ git.returncode = Some(0)
            THEN git.outcome = "success"
            ELSE git.outcome = "failure"

\* C19, termination: whenever Cancel is pressed, run_git comes to its end with
\* no git process left running.
C19_Terminated ==
    git.clicked ~> (git.pc = "done" /\ git.process # "running")

\* C19: a cancelled clone / pull run always ends as cancelled with the git
\* process terminated, in every interleaving of the Cancel click with the
\* start of the process, the reading of its output and its exit; a run that
\* is not cancelled reports success iff the process exits with code 0.
C19_CancelledRun == []C19_Outcome /\ C19_Terminated

\* C19 witness: Cancel was pressed while git ran; git was signalled and died
\* of the signal, run_git came to its end and the run was reported as
\* cancelled.
C19_Witness ==
    /\ git.clicked
    /\ git.signalled
    /\ git.returncode = Some(-15)
    /\ git.pc = "done"
    /\ git.outcome = "cancelled"


\* The state of the account object `uid`.
StateOf(uid) == setup[uid].state

\* C14, registry: an account is ready only after a profile fetch answered
\* 200, every member of the registry is ready, and so is the current account.
C14_RegistryReady ==
    /\ \A u \in Uids : StateOf(u) = "Ready" => setup[u].status = 200
    /\ \A i \in DOMAIN accounts : StateOf(accounts[i].uid) = "Ready"
    /\ currentAccount # 0 => StateOf(currentAccount) = "Ready"

\* C14: a GitHubAccount becomes Ready only after a successful profile fetch,
\* only Ready accounts are members of the registry or the current account,
\* and every request a refresh sends is sent on a Ready account.
C14_OnlyReadyAccounts ==
    /\ []C14_RegistryReady
    /\ [][(load_request /\ currentAccount # 0) => StateOf(currentAccount) = "Ready"]_vars

\* C14 witness: one account is ready, in the registry and current, with a
\* request of a refresh in flight on it, while the constructor of a second
\* one is polling the token endpoint.
C14_Witness ==
    /\ Len(accounts) = 1
    /\ currentAccount = accounts[1].uid
    /\ waiting[currentAccount] > 0
    /\ constructed = 2
    /\ StateOf(2) = "AuthenticationPending"

\* The profile fetch this step sent for the account under construction.
FetchStep(response) ==
    /\ do_verify(response)
    /\ setup[constructed].state = "Verifying"

\* C15: the first profile fetch answered 401 clears the stored token and
\* enters the device flow, at most once per construction, and the fetch is
\* then retried with the new token; the retried fetch failing, or the first
\* fetch failing otherwise than by 401, ends the setup as
\* AccountSetupCancelled; an account whose setup ended so is never ready and
\* authenticates no more.
C15_CredentialVerification ==
    /\ [](\A u \in Uids : /\ setup[u].cleared <= 1
                          /\ setup[u].auths <= 2
                          /\ (setup[u].retry /\ StateOf(u) = "Verifying")
                                => stores[setup[u].index] = u)
    /\ [][\A response \in ProfileResponses :
            FetchStep(response)
            => LET a == setup[constructed]
                   failed == response.raises \/ response.status_code # 200
               IN IF ~a.retry /\ ~response.raises /\ response.status_code = 401
                  THEN /\ StateOf(constructed)' = "NoCredential"
                       /\ stores'[a.index] = 0
                  ELSE failed => StateOf(constructed)' = "Cancelled"]_vars
    /\ [][\A u \in Uids : StateOf(u) = "Cancelled"
                          => /\ StateOf(u)' = "Cancelled"
                             /\ setup'[u].auths = setup[u].auths
                             /\ setup'[u].fetches = setup[u].fetches]_vars

C25_CountMatchesRegistry == prefs_accounts = Len(accounts)

\* C26: no two accounts of the registry have the same slot index, and so
\* none are bound to the same persisted store (the store of an account is
\* the folder account<index>).
C26_DistinctSlots ==
    \A i, j \in DOMAIN accounts : i # j => accounts[i].index # accounts[j].index

\* C27: remove_account(i) deletes the store of the account it takes out of
\* the list and of no other: the folder account<i> holds the token of the
\* account at position i, and after the removal every remaining account's
\* token is still in a store.
C27_RemovesOwnStore ==
    [][\A k \in 0..MaxAccounts :
          (loaded_remove_account(k) /\ k < Len(accounts))
          => /\ stores[k] = accounts[k + 1].token
             /\ \A i \in DOMAIN accounts' :
                    \E j \in Slots : stores'[j] = accounts'[i].token]_vars

\* C28: during startup loading, once the exit has been asked for because the
\* first setup was cancelled, no account is added to the registry and no
\* further account is constructed.
C28_NothingAfterExit ==
    [][exitRequested => accounts' = accounts /\ constructed' = constructed]_vars

\* The round of the polling loop this step ran for the account under construction.
PollStep(answer) ==
    /\ do_poll(answer)
    /\ setup[constructed].state = "AuthenticationPending"

\* C23: each round of the token polling causes one transition: an answer
\* with an access token ends the polling and the token is in the store;
\* authorization_pending keeps polling with the interval unchanged;
\* slow_down keeps polling with a strictly larger interval (no round that
\* keeps polling lowers the interval); expired_token, access_denied and the
\* user's abort end the flow as Cancelled and leave the store as it was.
C23_PollTransitions ==
    [][\A answer \in PollAnswers :
          PollStep(answer)
          => LET a == setup[constructed]
                 b == setup'[constructed]
             IN /\ b.state = "AuthenticationPending" => b.interval >= a.interval
                /\ answer = "access_token"
                      => b.state = "Verifying" /\ stores'[a.index] = constructed
                /\ answer = "authorization_pending"
                      => b.state = "AuthenticationPending" /\ b.interval = a.interval
                /\ answer = "slow_down"
                      => b.state = "AuthenticationPending" /\ b.interval > a.interval
                /\ answer \in {"expired_token", "access_denied", "abort"}
                      => b.state = "Cancelled" /\ stores' = stores]_vars

\* C23 witness: the polling was slowed down once and goes on, inside the
\* window, with the larger interval.
C23_Witness ==
    /\ constructed > 0
    /\ setup[constructed].state = "AuthenticationPending"
    /\ setup[constructed].interval = 2
    /\ setup[constructed].elapsed < setup[constructed].expires_in

\* C24: the polling loop always comes to an end: an account that is polling
\* leaves the polling, and when no round ended it before the window has
\* passed it ends as Cancelled, whatever the answers were.
C24_PollingTerminates ==
    /\ \A u \in Uids : (StateOf(u) = "AuthenticationPending")
                          ~> (StateOf(u) # "AuthenticationPending")
    /\ [][do_expire => /\ setup[constructed].elapsed >= setup[constructed].expires_in
                       /\ StateOf(constructed)' = "Cancelled"]_vars

\* C24 witness: the rounds were answered without a token until the window
\* had passed, and the flow ended as Cancelled with "Authorization timed out".
C24_Witness ==
    /\ constructed > 0
    /\ setup[constructed].state = "Cancelled"
    /\ setup[constructed].timed_out

\* C22: the diff, the notification and the snapshot replacement of one run
\* of _update_<stream>_list are one unit, also with refreshes that overlap:
\* when the snapshot is written it still is the one the check read, what is
\* written and notified is the diff of that snapshot with the collection the
\* run started with, whatever the threads did to the cache meanwhile, and no
\* other run starts before this one has ended.
C22_CycleIsOneUnit ==
    /\ [][cycle_write
            => /\ last_ids = cycle.read
               /\ cycle.outcome = check_and_notify(stream, notify, last_ids, cycle.new_items)
               /\ last_ids' = cycle.outcome.last
               /\ toast' = cycle.outcome.toast]_vars
    /\ [][cycle_begin => cycle.pc = "idle"]_vars
    /\ [][cycle.pc # "idle" /\ WorkerThreadStep
            => /\ cycle' = cycle
               /\ last_ids' = last_ids]_vars

\* C22 witness: the snapshot of a run was written, with a notification,
\* after a thread of an overlapping refresh had replaced the cache during
\* the run, and with the callback of that refresh waiting.
C22_Witness ==
    /\ cycle.pc = "fill"
    /\ cycle.read # None
    /\ toast # None
    /\ cache # cycle.new_items
    /\ pending > 0

\* C29: once the fetches started before and after an account switch and
\* their callbacks are all done, the cached list is the one fetched from the
\* current account.
C29_CacheOfCurrentAccount ==
    (InFlight = 0 /\ cycle.pc = "idle" /\ cacheAcct # 0) => cacheAcct = currentAccount

\* C30: when a handler of the notifications tab resolves the selected row,
\* the notification at that index of the cache is the one the row shows.
C30_SelectedRowIsShown ==
    [][\A sel \in Selections : \A ok \in BOOLEAN :
          overlap_mark(sel, ok) => cache[sel] = listbox[sel]]_vars

====
